---- MODULE Spec2Model ----
(***************************************************************************)
(* A model of pywrparser's PywrNetwork (src/pywrparser/types/network.py):  *)
(* the parameter/recorder attach and detach passes, the naming-convention  *)
(* back-references, the duplicate_edges view and the two construction      *)
(* entry points.                                                           *)
(*                                                                         *)
(* Strings are sequences of one-character strings, so that str.lower(),    *)
(* the substring test, canonical_name() and parse_reference_key() are      *)
(* computed and not assumed.                                               *)
(***************************************************************************)
EXTENDS Naturals, Sequences, FiniteSets, TLC

VARIABLES nodes,       \* self.nodes: ordered mapping name -> node, as a sequence
          parameters,  \* self.parameters: ordered mapping, a sequence of entries
          recorders,   \* self.recorders: ordered mapping, a sequence of entries
          raised,      \* the last resolver operation raised ValueError
          lastOp,      \* the last resolver operation invoked
          pre,         \* nodes/parameters/recorders before the last operation
          phase,       \* "attached" after attach, "roundtrip" after attach;detach
          snap,        \* nodes/parameters before the attach of the current phase
          edges,       \* self.edges: a list of tuples of node names
          dup,         \* outcome of the last access of duplicate_edges
          call,        \* arguments and environment of the last construction call
          result       \* outcome of the last construction call

vars == <<nodes, parameters, recorders, raised, lastOp, pre, phase, snap,
          edges, dup, call, result>>

---------------------------------------------------------------------------
(* Bounds of the model. *)

\* Attributes a node store holds at construction beyond name and type.
MaxAttrs == 2
\* Entries of the global parameter registry at construction.
MaxParams == 2
\* Entries of the global recorder registry at construction.
MaxRecs == 1
\* Length of the edge list.
MaxEdges == 3
\* Warnings the parser front end reports.
MaxWarnings == 1

---------------------------------------------------------------------------
(* Strings. *)

\* str.lower() on one character of the model's alphabet.
LowerChar(c) ==
    CASE c = "A" -> "a" [] c = "B" -> "b" [] c = "C" -> "c"
      [] c = "N" -> "n" [] c = "R" -> "r" [] c = "T" -> "t"
      [] OTHER -> c

\* str.lower()
Lower(s) == [i \in 1..Len(s) |-> LowerChar(s[i])]

\* Python's `sub in s` for strings
Contains(sub, s) ==
    \E i \in 0..Len(s) :
        /\ i + Len(sub) <= Len(s)
        /\ SubSeq(s, i + 1, i + Len(sub)) = sub

\* Index of the first occurrence of character c in s, 0 when there is none.
FirstIndex(c, s) ==
    IF \E i \in 1..Len(s) : s[i] = c
    THEN CHOOSE i \in 1..Len(s) : s[i] = c /\ \A k \in 1..(i - 1) : s[k] # c
    ELSE 0

\* "__<nodename>__:<attrname>"
canonical_name(nodename, attr) ==
    <<"_", "_">> \o nodename \o <<"_", "_", ":">> \o attr

\* The inverse of canonical_name: ok is FALSE where the code raises ValueError.
\* The key is split at its first colon; the part before it must be a
\* non-empty node name between two double underscores.
parse_reference_key(key) ==
    LET c == FirstIndex(":", key)
        head == SubSeq(key, 1, c - 1)
        n == Len(head)
    IN  IF /\ c > 0
           /\ n >= 5
           /\ SubSeq(head, 1, 2) = <<"_", "_">>
           /\ SubSeq(head, n - 1, n) = <<"_", "_">>
        THEN [ok |-> TRUE, node |-> SubSeq(head, 3, n - 2),
              attr |-> SubSeq(key, c + 1, Len(key))]
        ELSE [ok |-> FALSE, node |-> <<>>, attr |-> <<>>]

S_name == <<"n", "a", "m", "e">>
S_type == <<"t", "y", "p", "e">>
S_Name == <<"N", "a", "m", "e">>
S_x == <<"x">>
S_recorder == <<"r", "e", "c", "o", "r", "d", "e", "r">>
S_link == <<"l", "i", "n", "k">>
S_constant == <<"c", "o", "n", "s", "t", "a", "n", "t">>
S_NodeRecorder == <<"N", "o", "d", "e", "R", "e", "c", "o", "r", "d", "e", "r">>
S_A == <<"A">>
S_B == <<"B">>
S_C == <<"C">>
S_p == <<"p">>
S_r == <<"r">>

---------------------------------------------------------------------------
(* Values of node attributes. Every value is a record [tag, name, data]:   *)
(*   "str"   a Python str, in name                                         *)
(*   "dict"  an inline dict, in data                                       *)
(*   "param" a PywrParameter object with its name and data                 *)
(*   "rec"   a PywrRecorder object with its name and data                  *)
(* A dict is [hasType, type, v]: whether it has a "type" key, that key's   *)
(* value, and v standing for the rest of its content.                      *)

NoData == [hasType |-> FALSE, type |-> <<>>, v |-> 0]
Dict(hasType, type, v) == [hasType |-> hasType, type |-> type, v |-> v]

Str(s) == [tag |-> "str", name |-> s, data |-> NoData]
DictVal(d) == [tag |-> "dict", name |-> <<>>, data |-> d]

\* PywrParameter.__init__
PywrParameter(name, data) == [tag |-> "param", name |-> name, data |-> data]

\* PywrRecorder(name, data): the same shape as PywrParameter
PywrRecorder(name, data) == [tag |-> "rec", name |-> name, data |-> data]

\* isinstance(value, str), isinstance(value, dict), isinstance(value, Pywr...)
IsStr(value) == value.tag = "str"
IsDict(value) == value.tag = "dict"
IsInstance(value, tag) == value.tag = tag

---------------------------------------------------------------------------
(* Ordered mappings (Python dicts) as sequences of [key, value] entries.   *)

Keys(store) == {store[i].key : i \in 1..Len(store)}
HasKey(store, k) == k \in Keys(store)
IndexOf(store, k) == CHOOSE i \in 1..Len(store) : store[i].key = k
\* dict.get(k) / dict[k] of a key that is present
Get(store, k) == store[IndexOf(store, k)].value
\* del dict[k]
Del(store, k) ==
    LET i == IndexOf(store, k)
    IN  SubSeq(store, 1, i - 1) \o SubSeq(store, i + 1, Len(store))
\* dict[k] = value: in place for a present key, appended for a new one
Put(store, k, value) ==
    IF HasKey(store, k)
    THEN [store EXCEPT ![IndexOf(store, k)].value = value]
    ELSE Append(store, [key |-> k, value |-> value])

\* A node: its key in self.nodes (node.name) and node.data, the ordered
\* mapping attribute name -> value.
NodeAttrs(node) == Keys(node.data)
NodeIndex(ns, name) == CHOOSE i \in 1..Len(ns) : ns[i].name = name
NodeNamesOf(ns) == {ns[i].name : i \in 1..Len(ns)}

---------------------------------------------------------------------------
(* attach_parameters *)

exclude == {S_name, S_type}

\* AttachAttr without `del self.parameters[value]`.
AttachAttr_NoDel(st, i, j) ==
    LET node == st.nodes[i]
        attr == node.data[j].key
        value == node.data[j].value
    IN  IF Lower(attr) \in exclude THEN st
        ELSE IF IsStr(value) THEN
            IF ~HasKey(st.parameters, value.name) THEN st
            ELSE [st EXCEPT
                    !.nodes[i].data[j].value = Get(st.parameters, value.name)]
        ELSE IF IsDict(value) THEN
            IF \/ ~value.data.hasType
               \/ value.data.type = <<>>
               \/ Contains(S_recorder, Lower(value.data.type))
            THEN st
            ELSE LET param_name == canonical_name(node.name, attr)
                 IN  IF HasKey(st.parameters, param_name)
                     THEN [st EXCEPT !.raised = TRUE]
                     ELSE [st EXCEPT !.nodes[i].data[j].value =
                                        PywrParameter(param_name, value.data)]
        ELSE st

\* AttachAttr without the `param_name in self.parameters` check.
AttachAttr_NoCollisionCheck(st, i, j) ==
    LET node == st.nodes[i]
        attr == node.data[j].key
        value == node.data[j].value
    IN  IF Lower(attr) \in exclude THEN st
        ELSE IF IsStr(value) THEN
            IF ~HasKey(st.parameters, value.name) THEN st
            ELSE [st EXCEPT
                    !.nodes[i].data[j].value = Get(st.parameters, value.name),
                    !.parameters = Del(st.parameters, value.name)]
        ELSE IF IsDict(value) THEN
            IF \/ ~value.data.hasType
               \/ value.data.type = <<>>
               \/ Contains(S_recorder, Lower(value.data.type))
            THEN st
            ELSE [st EXCEPT !.nodes[i].data[j].value =
                    PywrParameter(canonical_name(node.name, attr), value.data)]
        ELSE st

\* AttachAttr with `"recorder" in type_key`, the lower() forgotten.
AttachAttr_CaseSensitive(st, i, j) ==
    LET node == st.nodes[i]
        attr == node.data[j].key
        value == node.data[j].value
    IN  IF Lower(attr) \in exclude THEN st
        ELSE IF IsStr(value) THEN
            IF ~HasKey(st.parameters, value.name) THEN st
            ELSE [st EXCEPT
                    !.nodes[i].data[j].value = Get(st.parameters, value.name),
                    !.parameters = Del(st.parameters, value.name)]
        ELSE IF IsDict(value) THEN
            IF \/ ~value.data.hasType
               \/ value.data.type = <<>>
               \/ Contains(S_recorder, value.data.type)
            THEN st
            ELSE LET param_name == canonical_name(node.name, attr)
                 IN  IF HasKey(st.parameters, param_name)
                     THEN [st EXCEPT !.raised = TRUE]
                     ELSE [st EXCEPT !.nodes[i].data[j].value =
                                        PywrParameter(param_name, value.data)]
        ELSE st

\* The body of the inner loop for attribute j of node i. st is
\* [nodes, parameters, recorders, raised].
AttachAttr(st, i, j) ==
    LET node == st.nodes[i]
        attr == node.data[j].key
        value == node.data[j].value
    IN  IF Lower(attr) \in exclude THEN st
        ELSE IF IsStr(value) THEN
            IF ~HasKey(st.parameters, value.name) THEN st
            ELSE [st EXCEPT
                    !.nodes[i].data[j].value = Get(st.parameters, value.name),
                    !.parameters = Del(st.parameters, value.name)]
        ELSE IF IsDict(value) THEN
            IF \/ ~value.data.hasType
               \/ value.data.type = <<>>
               \/ Contains(S_recorder, Lower(value.data.type))
            THEN st
            ELSE LET param_name == canonical_name(node.name, attr)
                 IN  IF HasKey(st.parameters, param_name)
                     THEN [st EXCEPT !.raised = TRUE]
                     ELSE [st EXCEPT !.nodes[i].data[j].value =
                                        PywrParameter(param_name, value.data)]
        ELSE st

\* The two nested loops, from attribute j of node i on; a raise ends them.
RECURSIVE AttachLoop(_, _, _)
AttachLoop(st, i, j) ==
    IF st.raised \/ i > Len(st.nodes) THEN st
    ELSE IF j > Len(st.nodes[i].data) THEN AttachLoop(st, i + 1, 1)
    ELSE AttachLoop(AttachAttr(st, i, j), i, j + 1)

attach_parameters(st) == AttachLoop(st, 1, 1)

---------------------------------------------------------------------------
(* detach_parameters, detach_recorders *)

\* DetachAttr without `node.data[attr] = value.name`.
DetachAttr_KeepObject(st, i, j, field, tag) ==
    LET value == st.nodes[i].data[j].value
    IN  IF ~IsInstance(value, tag) THEN st
        ELSE IF HasKey(st[field], value.name)
        THEN [st EXCEPT !.raised = TRUE]
        ELSE [st EXCEPT ![field] = Put(st[field], value.name, value)]

\* DetachAttr without the duplicate-name check: the registry entry is overwritten.
DetachAttr_Overwrite(st, i, j, field, tag) ==
    LET value == st.nodes[i].data[j].value
    IN  IF ~IsInstance(value, tag) THEN st
        ELSE [st EXCEPT ![field] = Put(st[field], value.name, value),
                        !.nodes[i].data[j].value = Str(value.name)]

\* The body of the inner loop of detach_parameters (field = "parameters",
\* tag = "param") and of detach_recorders (field = "recorders", tag = "rec").
DetachAttr(st, i, j, field, tag) ==
    LET value == st.nodes[i].data[j].value
    IN  IF ~IsInstance(value, tag) THEN st
        ELSE IF HasKey(st[field], value.name)
        THEN [st EXCEPT !.raised = TRUE]
        ELSE [st EXCEPT ![field] = Put(st[field], value.name, value),
                        !.nodes[i].data[j].value = Str(value.name)]

RECURSIVE DetachLoop(_, _, _, _, _)
DetachLoop(st, i, j, field, tag) ==
    IF st.raised \/ i > Len(st.nodes) THEN st
    ELSE IF j > Len(st.nodes[i].data) THEN DetachLoop(st, i + 1, 1, field, tag)
    ELSE DetachLoop(DetachAttr(st, i, j, field, tag), i, j + 1, field, tag)

detach_parameters(st) == DetachLoop(st, 1, 1, "parameters", "param")
detach_recorders(st) == DetachLoop(st, 1, 1, "recorders", "rec")

---------------------------------------------------------------------------
(* __add_component_references *)

\* AddReference with `node.data[attr] = attr`.
AddReference_WrongValue(ns, comp_name) ==
    LET ref == parse_reference_key(comp_name)
    IN  IF ~ref.ok THEN ns
        ELSE IF ref.node \notin NodeNamesOf(ns) THEN ns
        ELSE LET i == NodeIndex(ns, ref.node)
             IN  IF ref.attr \in NodeAttrs(ns[i]) THEN ns
                 ELSE [ns EXCEPT ![i].data = Put(ns[i].data, ref.attr, Str(ref.attr))]

\* AddReference without the `attr in node.attrs` check.
AddReference_Overwrite(ns, comp_name) ==
    LET ref == parse_reference_key(comp_name)
    IN  IF ~ref.ok THEN ns
        ELSE IF ref.node \notin NodeNamesOf(ns) THEN ns
        ELSE LET i == NodeIndex(ns, ref.node)
             IN  [ns EXCEPT ![i].data = Put(ns[i].data, ref.attr, Str(comp_name))]

\* The loop body for the registry name comp_name.
AddReference(ns, comp_name) ==
    LET ref == parse_reference_key(comp_name)
    IN  IF ~ref.ok THEN ns
        ELSE IF ref.node \notin NodeNamesOf(ns) THEN ns
        ELSE LET i == NodeIndex(ns, ref.node)
             IN  IF ref.attr \in NodeAttrs(ns[i]) THEN ns
                 ELSE [ns EXCEPT ![i].data = Put(ns[i].data, ref.attr, Str(comp_name))]

RECURSIVE AddReferencesLoop(_, _, _)
AddReferencesLoop(ns, store, k) ==
    IF k > Len(store) THEN ns
    ELSE AddReferencesLoop(AddReference(ns, store[k].key), store, k + 1)

add_component_references(st, component) ==
    IF component \notin {"parameter", "recorder"} THEN st
    ELSE LET store == IF component = "parameter" THEN st.parameters
                      ELSE st.recorders
         IN  [st EXCEPT !.nodes = AddReferencesLoop(st.nodes, store, 1)]

---------------------------------------------------------------------------
(* The networks a successful construction yields (PywrNetwork.__init__).   *)

cAx == canonical_name(S_A, S_x)
cBx == canonical_name(S_B, S_x)
cCx == canonical_name(S_C, S_x)

NodeNameSeq == <<S_A, S_B>>
\* The attributes, beyond name and type, a node may have at construction.
NodeAttrSeq == << <<S_x, S_Name>>, <<S_x>> >>
ParamNameSeq == <<S_p, cAx, cBx, cCx>>
RecNameSeq == <<S_r, cBx>>

GlobalData == Dict(TRUE, S_constant, 1)

\* What a node attribute other than name and type holds at construction: a
\* string (a parameter name or not, as the registry has it), an inline dict
\* or a Recorder object, which attach_parameters passes over as it does any
\* value that is neither str nor dict.
AttrValues ==
    { Str(S_p), Str(cBx),
      DictVal(Dict(FALSE, <<>>, 0)),
      DictVal(Dict(TRUE, <<>>, 0)),
      DictVal(Dict(TRUE, S_constant, 0)),
      DictVal(Dict(TRUE, S_NodeRecorder, 0)),
      PywrRecorder(S_r, Dict(TRUE, S_NodeRecorder, 0)) }

Slots == {s \in (1..Len(NodeNameSeq)) \X (1..2) : s[2] <= Len(NodeAttrSeq[s[1]])}

RECURSIVE ExtraAttrs(_, _, _)
ExtraAttrs(f, i, a) ==
    IF a > Len(NodeAttrSeq[i]) THEN <<>>
    ELSE (IF <<i, a>> \in DOMAIN f
          THEN <<[key |-> NodeAttrSeq[i][a], value |-> f[<<i, a>>]]>>
          ELSE <<>>) \o ExtraAttrs(f, i, a + 1)

\* The node store whose extra attributes are given by f: slot -> value.
MkNodes(f) ==
    [i \in 1..Len(NodeNameSeq) |->
        [name |-> NodeNameSeq[i],
         data |-> << [key |-> S_name, value |-> Str(NodeNameSeq[i])],
                     [key |-> S_type, value |-> Str(S_link)] >>
                  \o ExtraAttrs(f, i, 1)]]

RECURSIVE MkStore(_, _, _, _)
MkStore(names, K, tag, k) ==
    IF k > Len(names) THEN <<>>
    ELSE (IF names[k] \in K
          THEN <<[key |-> names[k],
                  value |-> [tag |-> tag, name |-> names[k], data |-> GlobalData]]>>
          ELSE <<>>) \o MkStore(names, K, tag, k + 1)

SeqRange(s) == {s[i] : i \in 1..Len(s)}

NoSnap == [nodes |-> <<>>, parameters |-> <<>>, recorders |-> <<>>]
NoDup == [accessed |-> FALSE, raised |-> FALSE, counts |-> <<>>]
NoCall == [entry |-> "none"]
NoResult == [kind |-> "none"]

Current == [nodes |-> nodes, parameters |-> parameters, recorders |-> recorders]

InitNetwork ==
    /\ \E S \in SUBSET Slots :
         /\ Cardinality(S) <= MaxAttrs
         /\ \E f \in [S -> AttrValues] : nodes = MkNodes(f)
    /\ \E K \in SUBSET SeqRange(ParamNameSeq) :
         /\ Cardinality(K) <= MaxParams
         /\ parameters = MkStore(ParamNameSeq, K, "param", 1)
    /\ \E K \in SUBSET SeqRange(RecNameSeq) :
         /\ Cardinality(K) <= MaxRecs
         /\ recorders = MkStore(RecNameSeq, K, "rec", 1)

Init ==
    /\ InitNetwork
    /\ raised = FALSE
    /\ lastOp = "init"
    /\ pre = NoSnap
    /\ phase = "none"
    /\ snap = NoSnap
    /\ edges = <<>>
    /\ dup = NoDup
    /\ call = NoCall
    /\ result = NoResult

---------------------------------------------------------------------------
(* The resolver operations as actions. An operation that raised leaves the *)
(* network as the loop left it; no operation follows a raise.              *)

\* One call of a resolver operation: op names it, st is its outcome.
Invoke(op, st) ==
    /\ ~raised
    /\ nodes' = st.nodes
    /\ parameters' = st.parameters
    /\ recorders' = st.recorders
    /\ raised' = st.raised
    /\ lastOp' = op
    /\ pre' = Current
    /\ UNCHANGED <<edges, dup, call, result>>

State == [nodes |-> nodes, parameters |-> parameters, recorders |-> recorders,
          raised |-> FALSE]

AttachParameters ==
    /\ Invoke("attach_parameters", attach_parameters(State))
    /\ phase' = "attached"
    /\ snap' = Current

DetachParameters ==
    /\ Invoke("detach_parameters", detach_parameters(State))
    /\ phase' = IF phase = "attached" THEN "roundtrip" ELSE "none"
    /\ snap' = IF phase = "attached" THEN snap ELSE NoSnap

DetachRecorders ==
    /\ Invoke("detach_recorders", detach_recorders(State))
    /\ phase' = "none"
    /\ snap' = NoSnap

AddParameterReferences ==
    /\ Invoke("add_parameter_references", add_component_references(State, "parameter"))
    /\ phase' = "none"
    /\ snap' = NoSnap

AddRecorderReferences ==
    /\ Invoke("add_recorder_references", add_component_references(State, "recorder"))
    /\ phase' = "none"
    /\ snap' = NoSnap

Next ==
    \/ AttachParameters
    \/ DetachParameters
    \/ DetachRecorders
    \/ AddParameterReferences
    \/ AddRecorderReferences

Spec == Init /\ [][Next]_vars

---------------------------------------------------------------------------
(* duplicate_edges *)

EmptyCounts == [e \in {} |-> 0]

\* Counter(...)[e]: the occurrences of e in es
Occurrences(es, e) == Cardinality({k \in 1..Len(es) : es[k] = e})

\* The property's value: `for (n1, n2) in self.edges` raises ValueError on
\* the first edge that does not unpack into exactly two names.
duplicate_edges(es) ==
    IF \E k \in 1..Len(es) : Len(es[k]) # 2
    THEN [accessed |-> TRUE, raised |-> TRUE, counts |-> EmptyCounts]
    ELSE [accessed |-> TRUE, raised |-> FALSE,
          counts |-> [e \in {e \in SeqRange(es) : Occurrences(es, e) > 1}
                        |-> Occurrences(es, e)]]

\* Edges: tuples of two or three of the node names.
EdgeNames == {S_A, S_B}
EdgeTuples == (EdgeNames \X EdgeNames) \cup (EdgeNames \X EdgeNames \X EdgeNames)

RECURSIVE SeqsUpTo(_, _)
SeqsUpTo(S, n) ==
    IF n = 0 THEN {<<>>}
    ELSE LET shorter == SeqsUpTo(S, n - 1)
         IN  shorter \cup {Append(q, x) : q \in shorter, x \in S}

InitEdges ==
    /\ nodes = <<>>
    /\ parameters = <<>>
    /\ recorders = <<>>
    /\ raised = FALSE
    /\ lastOp = "init"
    /\ pre = NoSnap
    /\ phase = "none"
    /\ snap = NoSnap
    /\ edges \in SeqsUpTo(EdgeTuples, MaxEdges)
    /\ dup = NoDup
    /\ call = NoCall
    /\ result = NoResult

\* One access of the duplicate_edges property.
DuplicateEdges ==
    /\ dup' = duplicate_edges(edges)
    /\ UNCHANGED <<nodes, parameters, recorders, raised, lastOp, pre, phase,
                   snap, edges, call, result>>

NextEdges == DuplicateEdges

SpecEdges == InitEdges /\ [][NextEdges]_vars

---------------------------------------------------------------------------
(* from_file, from_json *)

\* Python values of the result triple: None, or a mapping/list.
None == [none |-> TRUE, keys |-> {}, n |-> 0]
ErrorMap(keys) == [none |-> FALSE, keys |-> keys, n |-> 0]
WarningList(n) == [none |-> FALSE, keys |-> {}, n |-> n]

Raise(exc) == [kind |-> "raise", exc |-> exc, network |-> None,
               errors |-> None, warnings |-> None]
Return(network, errors, warnings) ==
    [kind |-> "return", exc |-> "none", network |-> network,
     errors |-> errors, warnings |-> warnings]

\* cls(parser)
Network == [none |-> FALSE, keys |-> {}, n |-> 0]

\* The categories under which the parser front end reports errors.
ErrorCategories == {"nodes", "parameters"}

\* parser.has_errors, parser.has_warnings
has_errors(c) == c.errors # {}
has_warnings(c) == c.warnings > 0

\* parser.parse(raise_on_error, raise_on_warning, ...): whether it raises.
ParseRaises(c) ==
    \/ c.raise_on_parser_error /\ has_errors(c)
    \/ c.raise_on_parser_warning /\ has_warnings(c)

\* Lines 58-65 and 71-78: parse, then the result triple.
ParseAndReturn(c) ==
    IF ParseRaises(c) THEN Raise("PywrParserException")
    ELSE LET ret_warnings == IF has_warnings(c) THEN WarningList(c.warnings)
                             ELSE None
         IN  IF has_errors(c) THEN Return(None, ErrorMap(c.errors), ret_warnings)
             ELSE Return(Network, None, WarningList(c.warnings))

from_file(c) ==
    IF ~c.readable THEN
        IF c.raise_on_parser_error THEN Raise("PywrParserException")
        ELSE Return(None, ErrorMap({"network"}), None)
    ELSE IF ~c.constructs THEN
        IF c.raise_on_parser_error THEN Raise("PywrParserException")
        ELSE Return(None, ErrorMap({"network"}), None)
    ELSE ParseAndReturn(c)

from_json(c) ==
    IF ~c.constructs THEN Raise("PywrParserException")
    ELSE ParseAndReturn(c)

\* The arguments of a construction call and what its environment does:
\* whether the file can be read, whether PywrJSONParser(...) constructs,
\* and the errors and warnings parse() collects.
Calls(entry, readables) ==
    [entry : {entry},
     readable : readables,
     constructs : BOOLEAN,
     errors : SUBSET ErrorCategories,
     warnings : 0..MaxWarnings,
     raise_on_parser_error : BOOLEAN,
     raise_on_parser_warning : BOOLEAN,
     allow_duplicate_edges : BOOLEAN]

InitCtor ==
    /\ nodes = <<>>
    /\ parameters = <<>>
    /\ recorders = <<>>
    /\ raised = FALSE
    /\ lastOp = "init"
    /\ pre = NoSnap
    /\ phase = "none"
    /\ snap = NoSnap
    /\ edges = <<>>
    /\ dup = NoDup
    /\ call = NoCall
    /\ result = NoResult

FromFile ==
    /\ \E c \in Calls("from_file", BOOLEAN) :
         /\ call' = c
         /\ result' = from_file(c)
    /\ UNCHANGED <<nodes, parameters, recorders, raised, lastOp, pre, phase,
                   snap, edges, dup>>

FromJson ==
    /\ \E c \in Calls("from_json", {TRUE}) :
         /\ call' = c
         /\ result' = from_json(c)
    /\ UNCHANGED <<nodes, parameters, recorders, raised, lastOp, pre, phase,
                   snap, edges, dup>>

NextCtor == FromFile \/ FromJson

SpecCtor == InitCtor /\ [][NextCtor]_vars

---------------------------------------------------------------------------
(* Vocabulary of the properties. *)

\* The (node, attribute) positions of a node store.
Positions(ns) ==
    UNION {{<<i, j>> : j \in 1..Len(ns[i].data)} : i \in 1..Len(ns)}
AttrAt(ns, pos) == ns[pos[1]].data[pos[2]].key
ValueAt(ns, pos) == ns[pos[1]].data[pos[2]].value
CanonicalAt(ns, pos) == canonical_name(ns[pos[1]].name, AttrAt(ns, pos))

\* The positions holding an object of the given kind, and the objects' names.
Holding(ns, tag) == {pos \in Positions(ns) : ValueAt(ns, pos).tag = tag}
AttachedNames(ns, tag) == {ValueAt(ns, pos).name : pos \in Holding(ns, tag)}

\* The content of a registry, its order set aside.
Entries(store) == {store[k] : k \in 1..Len(store)}

\* An attribute whose name is other than name/type, read to the letter and
\* in any letter case.
NamedOther(ns, pos) == AttrAt(ns, pos) \notin {S_name, S_type}
NamedOtherAnyCase(ns, pos) == Lower(AttrAt(ns, pos)) \notin {S_name, S_type}

\* A dict with a type that does not contain "recorder" in any letter case.
HasParameterType(d) == d.hasType /\ ~Contains(S_recorder, Lower(d.type))

\* An inline parameter definition: a dict with a non-empty type that does
\* not contain "recorder", under an attribute other than name/type in any
\* letter case.
InlineParameter(ns, pos) ==
    /\ NamedOtherAnyCase(ns, pos)
    /\ ValueAt(ns, pos).tag = "dict"
    /\ HasParameterType(ValueAt(ns, pos).data)
    /\ ValueAt(ns, pos).data.type # <<>>

\* The attributes that refer to the global parameter g by its name.
References(ns, g) ==
    {pos \in Positions(ns) : NamedOther(ns, pos) /\ ValueAt(ns, pos) = Str(g)}
ReferencesAnyCase(ns, g) ==
    {pos \in Positions(ns) : NamedOtherAnyCase(ns, pos) /\ ValueAt(ns, pos) = Str(g)}

\* attach_parameters() then detach_parameters(), both completed.
RoundTripDone == phase = "roundtrip" /\ ~raised
Attached == lastOp = "attach_parameters" /\ ~raised

---------------------------------------------------------------------------
(* C1 *)

\* No global name equals the canonical name of an inline parameter or the
\* name of an attached parameter, and no two attached parameters share a name.
NoNameCollision(s) ==
    /\ \A pos \in Positions(s.nodes) :
         InlineParameter(s.nodes, pos) =>
            ~HasKey(s.parameters, CanonicalAt(s.nodes, pos))
    /\ \A pos \in Holding(s.nodes, "param") :
         /\ ~HasKey(s.parameters, ValueAt(s.nodes, pos).name)
         /\ \A other \in Holding(s.nodes, "param") \ {pos} :
              ValueAt(s.nodes, other).name # ValueAt(s.nodes, pos).name

\* C1 as claimed: with no name collision, attach_parameters() followed by
\* detach_parameters() restores the registry (names and data) and every
\* node's attribute names and values.
C1_RoundTripRestores ==
    (RoundTripDone /\ NoNameCollision(snap)) =>
        /\ Entries(parameters) = Entries(snap.parameters)
        /\ nodes = snap.nodes

\* The registry entries the round trip makes of the inline parameters.
PromotedEntries(ns) ==
    {[key |-> CanonicalAt(ns, pos),
      value |-> PywrParameter(CanonicalAt(ns, pos), ValueAt(ns, pos).data)] :
        pos \in {q \in Positions(ns) : InlineParameter(ns, q)}}

\* C1, amended: when a network that holds no attached Parameter goes through
\* attach_parameters() and then detach_parameters() and neither raises, the
\* registry holds its pre-attach entries plus one entry per inline parameter,
\* under the canonical name and with the dict as data; every attribute has
\* its pre-attach name and value, except that an inline parameter's
\* attribute holds the canonical name as a string.
C1_RoundTripPromotesInline ==
    (RoundTripDone /\ Holding(snap.nodes, "param") = {}) =>
        /\ Entries(parameters) =
              Entries(snap.parameters) \cup PromotedEntries(snap.nodes)
        /\ Len(nodes) = Len(snap.nodes)
        /\ Positions(nodes) = Positions(snap.nodes)
        /\ \A i \in 1..Len(nodes) : nodes[i].name = snap.nodes[i].name
        /\ \A pos \in Positions(snap.nodes) :
             /\ AttrAt(nodes, pos) = AttrAt(snap.nodes, pos)
             /\ ValueAt(nodes, pos) =
                  IF InlineParameter(snap.nodes, pos)
                  THEN Str(CanonicalAt(snap.nodes, pos))
                  ELSE ValueAt(snap.nodes, pos)

\* A completed round trip over a network with an inline parameter and a
\* referenced global parameter.
C1_Witness ==
    /\ RoundTripDone
    /\ Holding(snap.nodes, "param") = {}
    /\ \E pos \in Positions(snap.nodes) : InlineParameter(snap.nodes, pos)
    /\ \E g \in Keys(snap.parameters) : ReferencesAnyCase(snap.nodes, g) # {}

---------------------------------------------------------------------------
(* C2 *)

\* C2: while no operation has raised, no name is both a key of the global
\* parameter registry and the name of a Parameter held by a node attribute.
C2_NeverGlobalAndAttached ==
    ~raised => AttachedNames(nodes, "param") \cap Keys(parameters) = {}

\* After an attach that moved a global parameter to a node and left
\* another one in the registry.
C2_Witness ==
    /\ Attached
    /\ parameters # <<>>
    /\ \E pos \in Holding(nodes, "param") :
         HasKey(pre.parameters, ValueAt(nodes, pos).name)

---------------------------------------------------------------------------
(* C3 *)

\* What attach did with the global parameter g, given the attributes refs
\* that referred to it: g left the registry, exactly one of refs holds the
\* registry's Parameter, the others keep the string.
Dereferenced(g, refs) ==
    /\ ~HasKey(parameters, g)
    /\ Cardinality({pos \in refs :
                      ValueAt(nodes, pos) = Get(pre.parameters, g)}) = 1
    /\ \A pos \in refs :
         \/ ValueAt(nodes, pos) = Get(pre.parameters, g)
         \/ ValueAt(nodes, pos) = Str(g)

\* C3 as claimed: after attach_parameters(), every global parameter named by
\* the string value of an attribute other than name/type is held by exactly
\* one attribute and is no longer in the registry.
C3_ReferencedGlobalAttached ==
    Attached =>
        \A g \in Keys(pre.parameters) :
            References(pre.nodes, g) # {} =>
                Dereferenced(g, References(pre.nodes, g))

\* C3, amended: the same for every global parameter named by the string
\* value of an attribute whose name is not name/type in any letter case.
C3_ReferencedGlobalAttachedAnyCase ==
    Attached =>
        \A g \in Keys(pre.parameters) :
            ReferencesAnyCase(pre.nodes, g) # {} =>
                Dereferenced(g, ReferencesAnyCase(pre.nodes, g))

\* After an attach of a global parameter that two attributes referred to.
C3_Witness ==
    /\ Attached
    /\ \E g \in Keys(pre.parameters) :
         Cardinality(ReferencesAnyCase(pre.nodes, g)) = 2

---------------------------------------------------------------------------
(* C4 *)

\* C4: when an inline parameter's canonical name is a name of the global
\* registry, attach_parameters() raises, leaves that attribute as it was
\* and leaves the registry entry of that name as it was.
C4_InlineCollisionRaises ==
    lastOp = "attach_parameters" =>
        \A pos \in Positions(pre.nodes) :
            (/\ InlineParameter(pre.nodes, pos)
             /\ HasKey(pre.parameters, CanonicalAt(pre.nodes, pos))) =>
                /\ raised
                /\ ValueAt(nodes, pos) = ValueAt(pre.nodes, pos)
                /\ HasKey(parameters, CanonicalAt(pre.nodes, pos))
                /\ Get(parameters, CanonicalAt(pre.nodes, pos)) =
                      Get(pre.parameters, CanonicalAt(pre.nodes, pos))

---------------------------------------------------------------------------
(* C5 *)

\* What a detach did: op over the registry `field` and the objects `tag`.
Detached(op, field, tag) ==
    lastOp = op =>
        LET store0 == pre[field]
            store1 == Current[field]
            held == Holding(pre.nodes, tag)
            clash ==
                \/ \E pos \in held : HasKey(store0, ValueAt(pre.nodes, pos).name)
                \/ \E pos \in held : \E other \in held \ {pos} :
                     ValueAt(pre.nodes, other).name = ValueAt(pre.nodes, pos).name
        IN  /\ \A k \in Keys(store0) :
                 HasKey(store1, k) /\ Get(store1, k) = Get(store0, k)
            /\ raised <=> clash
            /\ ~raised =>
                 /\ Keys(store1) = Keys(store0) \cup AttachedNames(pre.nodes, tag)
                 /\ Holding(nodes, tag) = {}
                 /\ \A pos \in held :
                      /\ Get(store1, ValueAt(pre.nodes, pos).name) =
                            ValueAt(pre.nodes, pos)
                      /\ ValueAt(nodes, pos) = Str(ValueAt(pre.nodes, pos).name)

\* C5: detach_parameters() moves every held Parameter into the registry
\* under its name and raises when the name is already a key, the entry
\* already there unchanged; detach_recorders() likewise with Recorders.
C5_DetachMovesOrRaises ==
    /\ Detached("detach_parameters", "parameters", "param")
    /\ Detached("detach_recorders", "recorders", "rec")

\* A detach_parameters() that moved one Parameter and raised on the next.
C5_Witness ==
    /\ lastOp = "detach_parameters"
    /\ raised
    /\ Len(parameters) > Len(pre.parameters)

---------------------------------------------------------------------------
(* C6 *)

AttrUniverse == {S_x, S_Name, S_name, S_type}

\* Every registry name "__<node>__:<attr>" of a node that had no such
\* attribute is now that attribute's value.
ReferencesAdded(store) ==
    \A i \in 1..Len(pre.nodes) : \A a \in AttrUniverse :
        LET k == canonical_name(pre.nodes[i].name, a)
        IN  (HasKey(store, k) /\ a \notin NodeAttrs(pre.nodes[i])) =>
                /\ HasKey(nodes[i].data, a)
                /\ Get(nodes[i].data, a) = Str(k)

\* C6: add_parameter_references() sets the attribute named by each
\* reference-format registry name of an existing node that lacks it to the
\* registry name, and a second invocation changes nothing; likewise
\* add_recorder_references().
C6_ReferencesAddedOnce ==
    /\ lastOp = "add_parameter_references" =>
         /\ ReferencesAdded(parameters)
         /\ add_component_references(State, "parameter") = State
    /\ lastOp = "add_recorder_references" =>
         /\ ReferencesAdded(recorders)
         /\ add_component_references(State, "recorder") = State

\* After an add_parameter_references() that added an attribute.
C6_Witness ==
    /\ lastOp = "add_parameter_references"
    /\ nodes # pre.nodes

---------------------------------------------------------------------------
(* C7 *)

\* Only attributes were added, each a reference-format name of `store`
\* that names its node.
OnlyReferencesAdded(store) ==
    /\ Len(nodes) = Len(pre.nodes)
    /\ \A i \in 1..Len(pre.nodes) :
         LET old == pre.nodes[i].data
             new == nodes[i].data
         IN  /\ nodes[i].name = pre.nodes[i].name
             /\ Len(new) >= Len(old)
             /\ SubSeq(new, 1, Len(old)) = old
             /\ \A j \in (Len(old) + 1)..Len(new) :
                  LET k == canonical_name(nodes[i].name, new[j].key)
                  IN  HasKey(store, k) /\ new[j].value = Str(k)

\* C7: add_parameter_references() and add_recorder_references() do not
\* raise, leave both registries unchanged, keep every attribute a node
\* had, and add nothing for a name that is not a reference key of a node.
C7_ReferencesOnlyAdd ==
    /\ lastOp = "add_parameter_references" =>
         /\ ~raised
         /\ parameters = pre.parameters /\ recorders = pre.recorders
         /\ OnlyReferencesAdded(parameters)
    /\ lastOp = "add_recorder_references" =>
         /\ ~raised
         /\ parameters = pre.parameters /\ recorders = pre.recorders
         /\ OnlyReferencesAdded(recorders)

\* After an add_parameter_references() over a registry with a name not in
\* reference-key format, a name of a missing node and a name of an
\* attribute the node has.
C7_Witness ==
    /\ lastOp = "add_parameter_references"
    /\ {S_p, cCx, cAx} \subseteq Keys(parameters)
    /\ S_x \in NodeAttrs(pre.nodes[1])
    /\ nodes = pre.nodes

---------------------------------------------------------------------------
(* C8 *)

\* C8: duplicate_edges is the mapping from each edge that occurs more than
\* once in the edge list to the number of its occurrences.
C8_DuplicateEdgesCounts ==
    dup.accessed =>
        /\ ~dup.raised
        /\ dup.counts = [e \in {e \in SeqRange(edges) : Occurrences(edges, e) > 1}
                           |-> Occurrences(edges, e)]

---------------------------------------------------------------------------
(* C9 *)

\* C9: with the raise flags off, from_file and from_json return a triple
\* in which errors imply no network and a network implies no errors, and
\* from_file reports an unreadable file or a parser that does not
\* construct under the key "network".
C9_ConstructionReturnsTriple ==
    (/\ call.entry # "none"
     /\ ~call.raise_on_parser_error
     /\ ~call.raise_on_parser_warning) =>
        /\ result.kind = "return"
        /\ (~result.errors.none /\ result.errors.keys # {}) => result.network.none
        /\ ~result.network.none => result.errors.none
        /\ (call.entry = "from_file" /\ (~call.readable \/ ~call.constructs)) =>
              result.errors = ErrorMap({"network"})

---------------------------------------------------------------------------
(* C10 *)

\* What attach did at an inline dict: a dict that `unchanged` holds of is
\* as it was, any other is a Parameter of the canonical name with the dict
\* as data, and that name is not in the registry.
InlinePromoted(pos, unchanged) ==
    LET value == ValueAt(pre.nodes, pos)
    IN  IF unchanged
        THEN ValueAt(nodes, pos) = value
        ELSE /\ ValueAt(nodes, pos) =
                  PywrParameter(CanonicalAt(pre.nodes, pos), value.data)
             /\ ~HasKey(parameters, CanonicalAt(pre.nodes, pos))

\* C10 as claimed: attach_parameters() makes every dict under an attribute
\* other than name/type a Parameter of the canonical name, outside the
\* registry, except a dict with no type or a recorder type.
C10_InlineDictPromoted ==
    Attached =>
        /\ Keys(parameters) \subseteq Keys(pre.parameters)
        /\ \A pos \in Positions(pre.nodes) :
             (NamedOther(pre.nodes, pos) /\ ValueAt(pre.nodes, pos).tag = "dict") =>
                InlinePromoted(pos, ~HasParameterType(ValueAt(pre.nodes, pos).data))

\* C10, amended: the same under an attribute whose name is not name/type in
\* any letter case, a dict with an empty type being left unchanged too.
C10_InlineDictPromotedAnyCase ==
    Attached =>
        /\ Keys(parameters) \subseteq Keys(pre.parameters)
        /\ \A pos \in Positions(pre.nodes) :
             (NamedOtherAnyCase(pre.nodes, pos) /\ ValueAt(pre.nodes, pos).tag = "dict") =>
                InlinePromoted(pos, ~InlineParameter(pre.nodes, pos))

\* After an attach that promoted an inline parameter and passed over a
\* dict whose type is a recorder's, in capitals.
C10_Witness ==
    /\ Attached
    /\ \E pos \in Positions(pre.nodes) : InlineParameter(pre.nodes, pos)
    /\ \E pos \in Positions(pre.nodes) :
         /\ ValueAt(pre.nodes, pos).tag = "dict"
         /\ ValueAt(pre.nodes, pos).data.type = S_NodeRecorder

====
